---- MODULE Spec2Model ----
(***************************************************************************)
(* Model of the obfuscation pass of src/obfuscator_pass/Obfuscator.cpp:    *)
(* the function under transformation is a layout-ordered sequence of       *)
(* blocks; CodeObfuscator::addBogusBlock, addFakeLoop and                   *)
(* substituteInstructions mutate it in place, ObfuscatorPass::run drives   *)
(* them and the process-wide ObfuscationStats counts what was done.        *)
(***************************************************************************)
EXTENDS Integers, Sequences, FiniteSets, TLC

\* ---------------------------------------------------------------- bounds
\* Largest number of blocks of an input function.
MaxBlocks == 3

\* Blocks the interpreter may enter before it gives up.
ExecFuel == 6

\* Largest number of functions handed to run, one after the other.
MaxRuns == 2

\* Small operand magnitudes tried around each interesting 32-bit value.
MaxDelta == 1

\* ------------------------------------------------------ program constants
\* `bogusAdded < 3` bounds the bogus-block loop.
BogusBudget == 3

\* `loopsAdded < 2` bounds the fake-loop loop.
FakeLoopBudget == 2

\* The fake loop's header compares the induction variable with 10.
LoopBound == 10

\* Constants stored and added by the bogus block.
BogusStoreConst == 42

BogusAddConst == 13

\* ------------------------------------------------- 32-bit integers (i32)
\* An i32 is the pair <<high half, low half>> of 16-bit halves, so that the
\* arithmetic keeps its real width.
Half == 2 ^ 16

W32(n) == <<0, n>>

Zero32 == W32(0)

IntMin32 == <<Half \div 2, 0>>

IntMax32 == <<(Half \div 2) - 1, Half - 1>>

\* add i32: ripple carry from the low half into the high half.
Add32(x, y) ==
    LET lo == x[2] + y[2]
        hi == x[1] + y[1] + (lo \div Half)
    IN  <<hi % Half, lo % Half>>

\* A subtraction that drops the borrow out of the low half.
Sub32NoBorrow(x, y) ==
    <<(x[1] - y[1]) % Half, (x[2] - y[2]) % Half>>

\* sub i32: borrow from the high half when the low half underflows.
Sub32(x, y) ==
    LET lo == x[2] - y[2]
        borrow == IF lo < 0 THEN 1 ELSE 0
        hi == x[1] - y[1] - borrow
    IN  <<hi % Half, lo % Half>>

\* icmp slt i32: signed comparison.
Slt32(x, y) ==
    LET sx == x[1] >= Half \div 2
        sy == y[1] >= Half \div 2
    IN  IF sx # sy THEN sx
        ELSE x[1] < y[1] \/ (x[1] = y[1] /\ x[2] < y[2])

\* The 32-bit operand values explored: around 0, -1, INT32_MIN, INT32_MAX
\* and the half-word carry, and the constants of the bogus block.
Vals ==
    {W32(d) : d \in 0..MaxDelta}
    \cup {Sub32(Zero32, W32(d)) : d \in 1..MaxDelta + 1}
    \cup {Add32(IntMin32, W32(d)) : d \in 0..MaxDelta}
    \cup {Sub32(IntMax32, W32(d)) : d \in 0..MaxDelta}
    \cup {<<0, Half - 1>>, <<1, 0>>, W32(BogusStoreConst), W32(BogusAddConst)}

\* ------------------------------------------------------------ IR values
\* An operand is a constant, the result of an instruction, an argument of
\* the function, or absent.
Const(w) == <<"c", w[1], w[2]>>

V(id) == <<"v", id, 0>>

Arg(n) == <<"a", n, 0>>

None == <<"n", 0, 0>>

IsConst(o) == o[1] = "c"

ConstVal(o) == <<o[2], o[3]>>

\* i1 constants.
FalseC == Const(W32(0))

TrueC == Const(W32(1))

Inst(id, op, a, b, inc) == [id |-> id, op |-> op, a |-> a, b |-> b, inc |-> inc]

Term(id, op, cond, t, f, val) ==
    [id |-> id, op |-> op, cond |-> cond, t |-> t, f |-> f, val |-> val]

NoTerm == Term(0, "none", None, 0, 0, None)

Block(kind, insts, term) == [kind |-> kind, insts |-> insts, term |-> term]

\* Successor blocks named by a terminator.
Succs(term) ==
    CASE term.op = "br" -> {term.t}
      [] term.op = "condbr" -> {term.t, term.f}
      [] OTHER -> {}

\* Predecessors of block b: derived from the other blocks' terminators.
Preds(Fn, b) == {p \in 1..Len(Fn) : b \in Succs(Fn[p].term)}

\* BasicBlock::getTerminator(): null when the block does not end in one.
HasTerminator(blk) == blk.term.op # "none"

\* Instructions of a block, its terminator included.
InstCount(blk) == Len(blk.insts) + (IF HasTerminator(blk) THEN 1 ELSE 0)

\* A count that leaves the terminators out.
RECURSIVE TotalInstsNoTerm(_, _)
TotalInstsNoTerm(Fn, n) ==
    IF n = 0 THEN 0 ELSE Len(Fn[n].insts) + TotalInstsNoTerm(Fn, n - 1)

\* `for (Instruction &I : BB) stats.totalInstructions++` over the blocks.
RECURSIVE TotalInsts(_, _)
TotalInsts(Fn, n) == IF n = 0 THEN 0 ELSE InstCount(Fn[n]) + TotalInsts(Fn, n - 1)

\* ------------------------------------------------------ input functions
\* Identifiers of the instructions of original block i.
PhiId(i) == 3 * i - 2

AddId(i) == 3 * i - 1

TermId(i) == 3 * i

\* Branch targets of original block i in a function of n blocks: the next
\* blocks in layout and the loop head, never the entry block (which has no
\* predecessors in well-formed IR).
Targets(n, i) == {i + 1, i + 2, 2} \cap (2..n)

TermChoices(n, i) ==
    {<<"ret", 0, 0>>, <<"unreachable", 0, 0>>}
    \cup {<<"br", t, 0>> : t \in Targets(n, i)}
    \cup {<<"condbr", p[1], p[2]>> : p \in {q \in Targets(n, i) \X Targets(n, i) : q[1] < q[2]}}

AllTermChoices(n) == UNION {TermChoices(n, i) : i \in 1..n}

Shapes(n) == {s \in [1..n -> AllTermChoices(n)] : \A i \in 1..n : s[i] \in TermChoices(n, i)}

ShapeSuccs(c) ==
    CASE c[1] = "br" -> {c[2]}
      [] c[1] = "condbr" -> {c[2], c[3]}
      [] OTHER -> {}

\* The add of original block i: two arguments, two constants, or the entry
\* block's sum plus one, by position.
OrigAdd(i) ==
    CASE i % 3 = 1 -> Inst(AddId(i), "add", Arg(0), Arg(1), <<>>)
      [] i % 3 = 2 -> Inst(AddId(i), "add", Const(IntMax32), Const(W32(1)), <<>>)
      [] OTHER -> Inst(AddId(i), "add", V(AddId(1)), Const(W32(1)), <<>>)

\* Original block i of a function of n blocks with terminators `shape`.
\* With a body, the block merges its predecessors' sums in a phi, adds, and
\* returns its sum; without, it is a bare terminator.
MkBlock(n, shape, body, i) ==
    LET ps == SelectSeq([k \in 1..n |-> k], LAMBDA p : i \in ShapeSuccs(shape[p]))
        phi == Inst(PhiId(i), "phi", None, None,
                    [k \in 1..Len(ps) |-> [pred |-> ps[k], val |-> V(AddId(ps[k]))]])
        insts == IF ~body THEN <<>>
                 ELSE (IF Len(ps) > 0 THEN <<phi>> ELSE <<>>) \o <<OrigAdd(i)>>
        c == shape[i]
        term == CASE c[1] = "ret" ->
                       Term(TermId(i), "ret", None, 0, 0, IF body THEN V(AddId(i)) ELSE Arg(0))
                  [] c[1] = "unreachable" -> Term(TermId(i), "unreachable", None, 0, 0, None)
                  [] c[1] = "br" -> Term(TermId(i), "br", None, c[2], 0, None)
                  [] c[1] = "none" -> NoTerm
                  [] OTHER -> Term(TermId(i), "condbr", Arg(2), c[2], c[3], None)
    IN  Block("orig", insts, term)

MkFunction(n, shape, body) == [i \in 1..n |-> MkBlock(n, shape, body, i)]

\* -------------------------------------------------------------- state
VARIABLES
    F,        \* the function: its blocks in layout order
    F0,       \* the function as it was on entry to run
    cfg,      \* ObfuscatorPass::BogusBlocks / FakeLoops / InstrSub
    stats,    \* the global ObfuscationStats
    pc,       \* position of ObfuscatorPass::run
    loc,      \* locals of run
    nextId,   \* next fresh instruction identifier
    inj,      \* the injections performed, in order
    subs,     \* the substitutions performed, in order
    ar,       \* operands and results of the replacement arithmetic
    hist      \* the functions handed to run so far: how many, and their
              \* blocks and instructions on entry, summed

vars == <<F, F0, cfg, stats, pc, loc, nextId, inj, subs, ar, hist>>

Stats0 ==
    [bogusBlocksAdded |-> 0, fakeLoopsAdded |-> 0, instructionSubstitutions |-> 0,
     totalInstructions |-> 0, totalBasicBlocks |-> 0, functionsObfuscated |-> 0]

Loc0 ==
    [modified |-> FALSE, bogusBefore |-> 0, loopsBefore |-> 0, subsBefore |-> 0,
     blocks |-> <<>>, i |-> 0, bogusAdded |-> 0, loopsAdded |-> 0,
     toSubstitute |-> <<>>, preserved |-> "unset"]

ArIdle == [stage |-> "idle", a |-> Zero32, b |-> Zero32, sum |-> Zero32,
           neg |-> Zero32, res |-> Zero32]

\* The identifiers of the instructions of Fn, terminators included.
IdsOf(Fn) ==
    UNION {{Fn[b].insts[k].id : k \in 1..Len(Fn[b].insts)}
           \cup (IF Fn[b].term.op = "none" THEN {} ELSE {Fn[b].term.id}) : b \in 1..Len(Fn)}

\* The record of the functions handed to run, after Fn joins h.
Handed(h, Fn) ==
    [k |-> h.k + 1, blocks |-> h.blocks + Len(Fn), insts |-> h.insts + Cardinality(IdsOf(Fn))]

Hist0 == [k |-> 0, blocks |-> 0, insts |-> 0]

Init ==
    /\ \E n \in 1..MaxBlocks : \E shape \in Shapes(n) : \E body \in BOOLEAN :
           /\ F = MkFunction(n, shape, body)
           /\ nextId = 3 * n + 1
    /\ F0 = F
    /\ cfg \in [bogus : BOOLEAN, loops : BOOLEAN, sub : BOOLEAN]
    /\ stats = Stats0
    /\ pc = "start"
    /\ loc = Loc0
    /\ inj = <<>>
    /\ subs = <<>>
    /\ ar = ArIdle
    /\ hist = Handed(Hist0, F)

\* run, lines 252-277: remember the counters, count the function and its
\* blocks and instructions as they are on entry, snapshot the block list.
Begin ==
    /\ pc = "start"
    /\ loc' = [loc EXCEPT !.modified = FALSE,
                          !.bogusBefore = stats.bogusBlocksAdded,
                          !.loopsBefore = stats.fakeLoopsAdded,
                          !.subsBefore = stats.instructionSubstitutions,
                          !.blocks = [k \in 1..Len(F) |-> k],
                          !.i = 0, !.bogusAdded = 0]
    /\ stats' = [stats EXCEPT !.functionsObfuscated = @ + 1,
                              !.totalBasicBlocks = @ + Len(F),
                              !.totalInstructions = @ + TotalInsts(F, Len(F))]
    /\ pc' = "bogus"
    /\ UNCHANGED <<F, F0, cfg, nextId, inj, subs, ar, hist>>

\* ------------------------------------------------ block mutation helpers
\* BasicBlock::Create(Ctx, name, &F): the new block goes to the end of the
\* function's layout.
AppendBlock(Fn, kind) == Append(Fn, Block(kind, <<>>, NoTerm))

\* insertAfter->getNextNode(): the block after b in the current layout,
\* 0 (null) when b is the last one.
GetNextNode(Fn, b) == IF b < Len(Fn) THEN b + 1 ELSE 0

\* `if (!NextBB) NextBB = &F.getEntryBlock();`
NextOrEntry(Fn, b) == IF GetNextNode(Fn, b) = 0 THEN 1 ELSE GetNextNode(Fn, b)

\* IRBuilder::CreateICmpEQ on two constants folds to an i1 constant.
FoldICmpEQ(x, y) == IF x = y THEN TrueC ELSE FalseC

\* The always-false condition: icmp eq i32 1, 0.
AlwaysFalse == FoldICmpEQ(W32(1), W32(0))

\* An eligibility test that forgets the unreachable-marker.
IsTerminalRetOnly(term) == term.op = "ret"

\* `term && (isa<ReturnInst>(term) || isa<UnreachableInst>(term))`
IsTerminal(term) == term.op \in {"ret", "unreachable"}

\* The guard: the original terminator of b, when there is one, is replaced
\* by `br i1 cond, taken, fallthrough`.
ReplaceTerminator(Fn, b, id, cond, taken, fallthrough) ==
    IF HasTerminator(Fn[b])
    THEN [Fn EXCEPT ![b].term = Term(id, "condbr", cond, taken, fallthrough, None)]
    ELSE Fn

\* CodeObfuscator::addBogusBlock(F, insertAfter), lines 122-164, but for
\* the counter: the function afterwards. The new instructions take the
\* identifiers id .. id+7.
BogusBody(id) ==
    << Inst(id, "alloca", None, None, <<>>),
       Inst(id + 1, "alloca", None, None, <<>>),
       Inst(id + 2, "store", Const(W32(BogusStoreConst)), V(id), <<>>),
       Inst(id + 3, "load", V(id), None, <<>>),
       Inst(id + 4, "add", V(id + 3), Const(W32(BogusAddConst)), <<>>),
       Inst(id + 5, "store", V(id + 4), V(id + 1), <<>>) >>

addBogusBlock(Fn, b, id) ==
    LET F1 == AppendBlock(Fn, "bogus")
        BogusBB == Len(F1)
        NextBB == NextOrEntry(F1, b)
        F2 == [F1 EXCEPT ![BogusBB].insts = BogusBody(id),
                         ![BogusBB].term = Term(id + 6, "br", None, NextBB, 0, None)]
    IN  ReplaceTerminator(F2, b, id + 7, AlwaysFalse, BogusBB, NextBB)

\* CodeObfuscator::addFakeLoop(F, insertAfter), lines 167-209, but for the
\* counter. The new instructions take the identifiers id .. id+6.
addFakeLoop(Fn, b, id) ==
    LET LoopHeader == Len(Fn) + 1
        LoopBody == Len(Fn) + 2
        LoopExit == Len(Fn) + 3
        F1 == AppendBlock(AppendBlock(AppendBlock(Fn, "header"), "body"), "exit")
        IV == Inst(id, "phi", None, None,
                   << [pred |-> b, val |-> Const(W32(0))],
                      [pred |-> LoopBody, val |-> V(id + 3)] >>)
        Cmp == Inst(id + 1, "icmp_slt", V(id), Const(W32(LoopBound)), <<>>)
        NextIV == Inst(id + 3, "add", V(id), Const(W32(1)), <<>>)
        NextBB == NextOrEntry(F1, b)
        F2 == [F1 EXCEPT
                 ![LoopHeader].insts = <<IV, Cmp>>,
                 ![LoopHeader].term = Term(id + 2, "condbr", V(id + 1), LoopBody, LoopExit, None),
                 ![LoopBody].insts = <<NextIV>>,
                 ![LoopBody].term = Term(id + 4, "br", None, LoopHeader, 0, None),
                 ![LoopExit].term = Term(id + 5, "br", None, NextBB, 0, None)]
    IN  ReplaceTerminator(F2, b, id + 6, AlwaysFalse, LoopHeader, NextBB)

\* What one injection did: where, the terminator it found there, the
\* terminator it left there, the block the last created block branches to,
\* and the blocks it created.
Injection(kind, Fn, Fn2, b) ==
    [kind |-> kind, at |-> b, orig |-> Fn[b].term, guard |-> Fn2[b].term,
     cont |-> Fn2[Len(Fn2)].term.t, first |-> Len(Fn) + 1, created |-> Len(Fn2) - Len(Fn)]

\* ------------------------------------------------------ run: bogus blocks
\* A pass that injects bogus blocks whatever its flag says.
BogusAlways(c) == TRUE

\* `if (BogusBlocks)`
BogusEnabled(c) == c.bogus

\* `if (FakeLoops)`
FakeEnabled(c) == c.loops

\* `if (InstrSub)`
SubEnabled(c) == c.sub

\* `i < blocks.size() && bogusAdded < 3`
BogusLoopRuns == loc.i < Len(loc.blocks) /\ loc.bogusAdded < BogusBudget

\* blocks[i] of the loop under way (the code's i counts from 0).
Cur == loc.blocks[loc.i + 1]

\* Lines 283-287: a terminal block is skipped.
BogusSkip ==
    /\ pc = "bogus" /\ BogusEnabled(cfg) /\ BogusLoopRuns
    /\ IsTerminal(F[Cur].term)
    /\ loc' = [loc EXCEPT !.i = @ + 1]
    /\ UNCHANGED <<F, F0, cfg, stats, pc, nextId, inj, subs, ar, hist>>

\* Lines 288-291: a bogus block is added after blocks[i].
BogusInject ==
    /\ pc = "bogus" /\ BogusEnabled(cfg) /\ BogusLoopRuns
    /\ ~IsTerminal(F[Cur].term)
    /\ F' = addBogusBlock(F, Cur, nextId)
    /\ nextId' = nextId + 8
    /\ stats' = [stats EXCEPT !.bogusBlocksAdded = @ + 1]
    /\ inj' = Append(inj, Injection("bogus", F, F', Cur))
    /\ loc' = [loc EXCEPT !.i = @ + 1, !.bogusAdded = @ + 1, !.modified = TRUE]
    /\ UNCHANGED <<F0, cfg, pc, subs, ar, hist>>

\* The bogus loop is over, or the feature is off: on to the fake loops.
BogusEnd ==
    /\ pc = "bogus" /\ (~BogusEnabled(cfg) \/ ~BogusLoopRuns)
    /\ pc' = "fake"
    /\ loc' = [loc EXCEPT !.i = 0, !.loopsAdded = 0]
    /\ UNCHANGED <<F, F0, cfg, stats, nextId, inj, subs, ar, hist>>

\* ------------------------------------------------------- run: fake loops
\* `i < blocks.size() && loopsAdded < 2`
FakeLoopRuns == loc.i < Len(loc.blocks) /\ loc.loopsAdded < FakeLoopBudget

\* Lines 300-303.
FakeSkip ==
    /\ pc = "fake" /\ FakeEnabled(cfg) /\ FakeLoopRuns
    /\ IsTerminal(F[Cur].term)
    /\ loc' = [loc EXCEPT !.i = @ + 1]
    /\ UNCHANGED <<F, F0, cfg, stats, pc, nextId, inj, subs, ar, hist>>

\* Lines 304-307.
FakeInject ==
    /\ pc = "fake" /\ FakeEnabled(cfg) /\ FakeLoopRuns
    /\ ~IsTerminal(F[Cur].term)
    /\ F' = addFakeLoop(F, Cur, nextId)
    /\ nextId' = nextId + 7
    /\ stats' = [stats EXCEPT !.fakeLoopsAdded = @ + 1]
    /\ inj' = Append(inj, Injection("loop", F, F', Cur))
    /\ loc' = [loc EXCEPT !.i = @ + 1, !.loopsAdded = @ + 1, !.modified = TRUE]
    /\ UNCHANGED <<F0, cfg, pc, subs, ar, hist>>

FakeEnd ==
    /\ pc = "fake" /\ (~FakeEnabled(cfg) \/ ~FakeLoopRuns)
    /\ pc' = "subst"
    /\ UNCHANGED <<F, F0, cfg, stats, loc, nextId, inj, subs, ar, hist>>

\* ------------------------------------------------------- substitution
\* Operands of one instruction, phi operands included.
InstOperands(x) == {x.a, x.b} \cup {x.inc[j].val : j \in 1..Len(x.inc)}

\* The operands of a block's instructions and terminator, as a set.
OperandsOf(blk) ==
    UNION {InstOperands(blk.insts[k]) : k \in 1..Len(blk.insts)}
    \cup {blk.term.cond, blk.term.val}

\* Identifiers of the instructions (terminators included) that use value id.
Users(Fn, id) ==
    UNION {{Fn[b].insts[k].id : k \in {j \in 1..Len(Fn[b].insts) :
                                        V(id) \in InstOperands(Fn[b].insts[j])}} :
           b \in 1..Len(Fn)}
    \cup {Fn[b].term.id : b \in {c \in 1..Len(Fn) : V(id) \in {Fn[c].term.cond, Fn[c].term.val}}}

\* Lines 215-224: the identifiers of the function's add instructions, block
\* by block in layout order.
RECURSIVE CollectAdds(_, _)
CollectAdds(Fn, b) ==
    IF b > Len(Fn) THEN <<>>
    ELSE LET adds == SelectSeq(Fn[b].insts, LAMBDA x : x.op = "add")
         IN  [k \in 1..Len(adds) |-> adds[k].id] \o CollectAdds(Fn, b + 1)

\* Where instruction id lives: <<block, position>>.
Locate(Fn, id) ==
    LET b == CHOOSE c \in 1..Len(Fn) : \E k \in 1..Len(Fn[c].insts) : Fn[c].insts[k].id = id
        k == CHOOSE j \in 1..Len(Fn[b].insts) : Fn[b].insts[j].id = id
    IN  <<b, k>>

Redirect(o, id, new) == IF o = V(id) THEN new ELSE o

\* A redirect that misses phi operands.
ReplaceAllUsesButPhis(Fn, id, new) ==
    [b \in 1..Len(Fn) |->
        [Fn[b] EXCEPT
           !.insts = [k \in 1..Len(@) |->
                        [@[k] EXCEPT !.a = Redirect(@, id, new), !.b = Redirect(@, id, new)]],
           !.term = [@ EXCEPT !.cond = Redirect(@, id, new), !.val = Redirect(@, id, new)]]]

\* Value::replaceAllUsesWith: every operand that is the result of
\* instruction id, phi operands and terminator operands included, becomes
\* `new`.
ReplaceAllUsesWith(Fn, id, new) ==
    [b \in 1..Len(Fn) |->
        [Fn[b] EXCEPT
           !.insts = [k \in 1..Len(@) |->
                        [@[k] EXCEPT
                           !.a = Redirect(@, id, new), !.b = Redirect(@, id, new),
                           !.inc = [j \in 1..Len(@) |->
                                      [@[j] EXCEPT !.val = Redirect(@, id, new)]]]],
           !.term = [@ EXCEPT !.cond = Redirect(@, id, new), !.val = Redirect(@, id, new)]]]

\* A negation with its operands the wrong way round: b - 0.
NegOperandsSwapped(B) == <<B, Const(Zero32)>>

\* IRBuilder::CreateNeg(B) builds `sub 0, B`.
NegOperands(B) == <<Const(Zero32), B>>

\* IRBuilder::CreateSub: two constant operands fold to a constant, anything
\* else is a new `sub` instruction placed before the insertion point.
\* The result is <<operand, instructions created>>.
CreateSub(x, y, id) ==
    IF IsConst(x) /\ IsConst(y)
    THEN <<Const(Sub32(ConstVal(x), ConstVal(y))), <<>> >>
    ELSE <<V(id), <<Inst(id, "sub", x, y, <<>>)>> >>

\* Lines 227-237 for the add with identifier id: the negation and the
\* subtraction go before the add, its uses are redirected, it is erased.
\* [F: the function afterwards, a, b: the add's operands, result: the
\* replacement, made: instructions created].
SubstituteOne(Fn, id, fresh) ==
    LET bp == Locate(Fn, id)
        b == bp[1]
        k == bp[2]
        Add == Fn[b].insts[k]
        A == Add.a
        B == Add.b
        neg == CreateSub(NegOperands(B)[1], NegOperands(B)[2], fresh)
        NegB == neg[1]
        sub == CreateSub(A, NegB, fresh + Len(neg[2]))
        Result == sub[1]
        F1 == [Fn EXCEPT ![b].insts =
                  SubSeq(@, 1, k - 1) \o neg[2] \o sub[2] \o SubSeq(@, k, Len(@))]
        F2 == ReplaceAllUsesWith(F1, id, Result)
        F3 == [F2 EXCEPT ![b].insts = SelectSeq(@, LAMBDA x : x.id # id)]
    IN  [F |-> F3, a |-> A, b |-> B, result |-> Result,
         made |-> Len(neg[2]) + Len(sub[2])]

\* Lines 213-224.
SubstCollect ==
    /\ pc = "subst" /\ SubEnabled(cfg)
    /\ loc' = [loc EXCEPT !.toSubstitute = CollectAdds(F, 1)]
    /\ pc' = "subloop"
    /\ UNCHANGED <<F, F0, cfg, stats, nextId, inj, subs, ar, hist>>

\* Lines 226-240, one add of the worklist.
SubstOne ==
    /\ pc = "subloop" /\ loc.toSubstitute # <<>>
    /\ LET id == Head(loc.toSubstitute)
           r == SubstituteOne(F, id, nextId)
       IN  /\ F' = r.F
           /\ nextId' = nextId + r.made
           /\ subs' = Append(subs, [add |-> id, a |-> r.a, b |-> r.b, result |-> r.result,
                                    users |-> Users(F, id)])
    /\ stats' = [stats EXCEPT !.instructionSubstitutions = @ + 1]
    /\ loc' = [loc EXCEPT !.toSubstitute = Tail(@)]
    /\ UNCHANGED <<F0, cfg, pc, inj, ar, hist>>

\* Lines 315-317: the pass has modified the function if anything was
\* substituted.
SubstEnd ==
    /\ pc = "subloop" /\ loc.toSubstitute = <<>>
    /\ loc' = [loc EXCEPT !.modified =
                  @ \/ stats.instructionSubstitutions > loc.subsBefore]
    /\ pc' = "report"
    /\ UNCHANGED <<F, F0, cfg, stats, nextId, inj, subs, ar, hist>>

\* Substitution is off.
SubstOff ==
    /\ pc = "subst" /\ ~SubEnabled(cfg)
    /\ pc' = "report"
    /\ UNCHANGED <<F, F0, cfg, stats, loc, nextId, inj, subs, ar, hist>>

\* Lines 324-326: the report is written (it changes nothing here) and run
\* answers none() when it modified the function, all() otherwise.
Return ==
    /\ pc = "report"
    /\ loc' = [loc EXCEPT !.preserved = IF loc.modified THEN "none" ELSE "all"]
    /\ pc' = "done"
    /\ UNCHANGED <<F, F0, cfg, stats, nextId, inj, subs, ar, hist>>

\* ------------------------------------------------------------ execution
\* The value of an operand: constants, results computed so far, arguments.
EvalOp(o, env, args) ==
    CASE o[1] = "c" -> <<o[2], o[3]>>
      [] o[1] = "v" -> env[o[2]]
      [] o[1] = "a" -> args[o[2] + 1]
      [] OTHER -> Zero32

\* One instruction, entered from block prev. st = [env, mem, ok]; a phi with
\* no entry for prev has no value and execution is stuck.
RunInst(x, prev, st, args) ==
    LET a == EvalOp(x.a, st.env, args)
        b == EvalOp(x.b, st.env, args)
        hits == {j \in 1..Len(x.inc) : x.inc[j].pred = prev}
    IN  CASE x.op = "add" -> [st EXCEPT !.env[x.id] = Add32(a, b)]
          [] x.op = "sub" -> [st EXCEPT !.env[x.id] = Sub32(a, b)]
          [] x.op = "icmp_slt" -> [st EXCEPT !.env[x.id] = IF Slt32(a, b) THEN W32(1) ELSE W32(0)]
          [] x.op = "alloca" -> [st EXCEPT !.env[x.id] = W32(x.id)]
          [] x.op = "store" -> [st EXCEPT !.mem[b[2]] = a]
          [] x.op = "load" -> [st EXCEPT !.env[x.id] = st.mem[a[2]]]
          [] x.op = "phi" ->
                IF hits = {} THEN [st EXCEPT !.ok = FALSE]
                ELSE [st EXCEPT !.env[x.id] =
                         EvalOp(x.inc[CHOOSE j \in hits : TRUE].val, st.env, args)]
          [] OTHER -> st

RECURSIVE RunInsts(_, _, _, _, _)
RunInsts(insts, k, prev, st, args) ==
    IF k > Len(insts) \/ ~st.ok THEN st
    ELSE RunInsts(insts, k + 1, prev, RunInst(insts[k], prev, st, args), args)

\* Execution from block cur: <<"ret", value>>, or why no value is returned.
RECURSIVE RunBlock(_, _, _, _, _, _)
RunBlock(Fn, cur, prev, st, args, fuel) ==
    IF fuel = 0 THEN <<"fuel", Zero32>>
    ELSE LET st1 == RunInsts(Fn[cur].insts, 1, prev, st, args)
             term == Fn[cur].term
         IN  IF ~st1.ok THEN <<"stuck", Zero32>>
             ELSE CASE term.op = "ret" -> <<"ret", EvalOp(term.val, st1.env, args)>>
                    [] term.op = "br" -> RunBlock(Fn, term.t, cur, st1, args, fuel - 1)
                    [] term.op = "condbr" ->
                          RunBlock(Fn, IF EvalOp(term.cond, st1.env, args)[2] % 2 = 1
                                       THEN term.t ELSE term.f,
                                   cur, st1, args, fuel - 1)
                    [] term.op = "unreachable" -> <<"unreachable", Zero32>>
                    [] OTHER -> <<"stuck", Zero32>>

\* The function called with args = <<a, b, c>>; ids are below n.
Exec(Fn, args, n) ==
    RunBlock(Fn, 1, 0, [env |-> [k \in 1..n |-> Zero32], mem |-> [k \in 1..n |-> Zero32],
                        ok |-> TRUE], args, ExecFuel)

\* ------------------------------------------- the replacement arithmetic
\* The computation substituteInstructions puts in place of `a + b`, on
\* concrete operands: t = 0 - b, then r = a - t, next to the sum it replaces.
InitArith ==
    /\ F = <<>> /\ F0 = <<>>
    /\ cfg = [bogus |-> FALSE, loops |-> FALSE, sub |-> TRUE]
    /\ stats = Stats0 /\ pc = "arith" /\ loc = Loc0 /\ nextId = 1
    /\ inj = <<>> /\ subs = <<>> /\ hist = Hist0
    /\ \E a \in Vals, b \in Vals : ar = [ArIdle EXCEPT !.stage = "start", !.a = a, !.b = b]

ArithAdd ==
    /\ pc = "arith" /\ ar.stage = "start"
    /\ ar' = [ar EXCEPT !.stage = "added", !.sum = Add32(ar.a, ar.b)]
    /\ UNCHANGED <<F, F0, cfg, stats, pc, loc, nextId, inj, subs, hist>>

ArithNeg ==
    /\ pc = "arith" /\ ar.stage = "added"
    /\ LET ops == NegOperands(Const(ar.b))
       IN  ar' = [ar EXCEPT !.stage = "negated",
                            !.neg = ConstVal(CreateSub(ops[1], ops[2], nextId)[1])]
    /\ UNCHANGED <<F, F0, cfg, stats, pc, loc, nextId, inj, subs, hist>>

ArithSub ==
    /\ pc = "arith" /\ ar.stage = "negated"
    /\ ar' = [ar EXCEPT !.stage = "done",
                        !.res = ConstVal(CreateSub(Const(ar.a), Const(ar.neg), nextId)[1])]
    /\ UNCHANGED <<F, F0, cfg, stats, pc, loc, nextId, inj, subs, hist>>

NextArith == ArithAdd \/ ArithNeg \/ ArithSub

SpecArith == InitArith /\ [][NextArith]_vars

Next ==
    \/ Begin
    \/ BogusSkip \/ BogusInject \/ BogusEnd
    \/ FakeSkip \/ FakeInject \/ FakeEnd
    \/ SubstCollect \/ SubstOne \/ SubstEnd \/ SubstOff
    \/ Return

Spec == Init /\ [][Next]_vars

\* Malformed functions: as Shapes, but at least one block does not end in a
\* terminator.
Unterminated == <<"none", 0, 0>>

MalformedShapes(n) ==
    {s \in [1..n -> AllTermChoices(n) \cup {Unterminated}] :
        /\ \A i \in 1..n : s[i] \in TermChoices(n, i) \cup {Unterminated}
        /\ \E i \in 1..n : s[i] = Unterminated}

\* run is handed a function with an unterminated block.
InitMalformed ==
    /\ \E n \in 1..MaxBlocks : \E shape \in MalformedShapes(n) : \E body \in BOOLEAN :
           /\ F = MkFunction(n, shape, body)
           /\ nextId = 3 * n + 1
    /\ F0 = F
    /\ cfg \in [bogus : BOOLEAN, loops : BOOLEAN, sub : BOOLEAN]
    /\ stats = Stats0
    /\ pc = "start"
    /\ loc = Loc0
    /\ inj = <<>>
    /\ subs = <<>>
    /\ ar = ArIdle
    /\ hist = Handed(Hist0, F)

SpecMalformed == InitMalformed /\ [][Next]_vars

\* Functions handed to run one after the other are one block smaller than
\* MaxBlocks allows and all have bodies (phis and adds), which keeps the
\* product of the runs explorable.
SeqBlocks == MaxBlocks - 1

\* The first of a sequence of functions.
InitSeq ==
    /\ \E n \in 1..SeqBlocks : \E shape \in Shapes(n) :
           /\ F = MkFunction(n, shape, TRUE)
           /\ nextId = 3 * n + 1
    /\ F0 = F
    /\ cfg \in [bogus : BOOLEAN, loops : BOOLEAN, sub : BOOLEAN]
    /\ stats = Stats0
    /\ pc = "start"
    /\ loc = Loc0
    /\ inj = <<>>
    /\ subs = <<>>
    /\ ar = ArIdle
    /\ hist = Handed(Hist0, F)

\* The host hands the next function to run: a new function and new locals,
\* the same pass object (its flags) and the same global stats.
NextFunction ==
    /\ pc = "done" /\ hist.k < MaxRuns
    /\ \E n \in 1..SeqBlocks : \E shape \in Shapes(n) :
           /\ F' = MkFunction(n, shape, TRUE)
           /\ nextId' = 3 * n + 1
    /\ F0' = F'
    /\ hist' = Handed(hist, F')
    /\ pc' = "start"
    /\ loc' = Loc0
    /\ inj' = <<>>
    /\ subs' = <<>>
    /\ UNCHANGED <<cfg, stats, ar>>

NextSeq == Next \/ NextFunction

SpecSeq == InitSeq /\ [][NextSeq]_vars

\* ------------------------------------------------------------ properties
Done == pc = "done"

AllOn == cfg.bogus /\ cfg.loops /\ cfg.sub

AllOff == ~cfg.bogus /\ ~cfg.loops /\ ~cfg.sub

\* Blocks the run created.
InjectedBlocks == {b \in 1..Len(F) : F[b].kind # "orig"}

\* A guard is a conditional branch on the constant false.
IsGuard(term) == term.op = "condbr" /\ term.cond = FalseC

\* Where control goes from a terminator when every guard is false.
FalseSuccs(term) == IF IsGuard(term) THEN {term.f} ELSE Succs(term)

RECURSIVE ReachFalse(_)
ReachFalse(S) ==
    LET T == S \cup UNION {FalseSuccs(F[b].term) : b \in S}
    IN  IF T = S THEN S ELSE ReachFalse(T)

BogusDelta == stats.bogusBlocksAdded - loc.bogusBefore

LoopsDelta == stats.fakeLoopsAdded - loc.loopsBefore

SubsDelta == stats.instructionSubstitutions - loc.subsBefore

BlocksOfKind(kinds) == {b \in 1..Len(F) : F[b].kind \in kinds}

\* C1: after a run, with every guard taking its false edge no injected
\* block is reachable from the entry block, and no terminator of an
\* original block (a guard counted by its false edge) targets an injected
\* block.
C1_InjectedOnlyBehindGuards ==
    Done =>
        /\ ReachFalse({1}) \cap InjectedBlocks = {}
        /\ \A b \in 1..Len(F) :
               F[b].kind = "orig" => FalseSuccs(F[b].term) \cap InjectedBlocks = {}

\* C2: the guard of every injection sends its false edge to a successor the
\* insertion point's terminator had before the injection (for an
\* unconditional branch: to its one target).
C2_FalseEdgeKeepsOriginalTarget ==
    \A k \in 1..Len(inj) : inj[k].guard.f \in FalseSuccs(inj[k].orig)

\* C3: a block of the original function that ends in a return or an
\* unreachable-marker is never an insertion point and keeps its terminator:
\* the same instruction, of the same kind, whose returned value changes only
\* when it was an addition that substitution replaced, and then to that
\* addition's replacement.
C3_TerminalBlocksUntouched ==
    \A i \in 1..Len(F0) :
        F0[i].term.op \in {"ret", "unreachable"} =>
            /\ \A k \in 1..Len(inj) : inj[k].at # i
            /\ F[i].term.id = F0[i].term.id
            /\ F[i].term.op = F0[i].term.op
            /\ \/ F[i].term = F0[i].term
               \/ \E k \in 1..Len(subs) :
                      /\ F0[i].term.val = V(subs[k].add)
                      /\ F[i].term = [F0[i].term EXCEPT !.val = subs[k].result]

\* A run that injected something into a function that has an
\* unreachable-terminated block and a return-terminated block.
C3_Witness ==
    /\ Done /\ Len(inj) > 0
    /\ \E i \in 1..Len(F0) : F0[i].term.op = "unreachable"
    /\ \E i \in 1..Len(F0) : F0[i].term.op = "ret" /\ F[i].term # F0[i].term

\* C4: a run adds at most 2 bogus blocks, and the number of bogus blocks in
\* the function is the increase of bogusBlocksAdded.
C4_AtMostTwoBogusBlocks ==
    Done =>
        /\ Cardinality(BlocksOfKind({"bogus"})) <= 2
        /\ Cardinality(BlocksOfKind({"bogus"})) = BogusDelta

\* C5: a run adds at most 1 fake loop, and the number of fake-loop blocks in
\* the function is 3 times the increase of fakeLoopsAdded.
C5_AtMostOneFakeLoop ==
    Done =>
        /\ LoopsDelta <= 1
        /\ Cardinality(BlocksOfKind({"header", "body", "exit"})) = 3 * LoopsDelta

\* The phis of function Fn name exactly the predecessors of their blocks,
\* each once.
PhisMatchPreds(Fn) ==
    \A b \in 1..Len(Fn) : \A k \in 1..Len(Fn[b].insts) :
        Fn[b].insts[k].op = "phi" =>
            /\ {Fn[b].insts[k].inc[j].pred : j \in 1..Len(Fn[b].insts[k].inc)} = Preds(Fn, b)
            /\ Len(Fn[b].insts[k].inc) = Cardinality(Preds(Fn, b))

\* C6: after a run every phi has one incoming entry per predecessor of its
\* block and none for a block that is not a predecessor.
C6_PhisMatchPredecessors == Done => PhisMatchPreds(F)

\* C7: a run with the three features off leaves the function as it was,
\* leaves bogusBlocksAdded, fakeLoopsAdded and instructionSubstitutions as
\* they were, and answers that all analyses are preserved.
C7_DisabledRunChangesNothing ==
    (Done /\ AllOff) =>
        /\ F = F0
        /\ BogusDelta = 0 /\ LoopsDelta = 0 /\ SubsDelta = 0
        /\ loc.preserved = "all"

\* A finished run with every feature off on a function that has additions
\* and a block the injectors would have taken.
C7_Witness ==
    /\ Done /\ AllOff /\ Len(F0) >= 2
    /\ \E i \in 1..Len(F0) : F0[i].term.op \in {"br", "condbr"}
    /\ \E i \in 1..Len(F0) : Len(F0[i].insts) > 0

\* Every instruction identifier defined in F (terminators included).
DefinedIds ==
    UNION {{F[b].insts[k].id : k \in 1..Len(F[b].insts)} \cup {F[b].term.id} :
           b \in 1..Len(F)}

\* The operands of the instruction or terminator with identifier u.
OperandsOfId(u) ==
    UNION {UNION {InstOperands(F[b].insts[k]) :
                     k \in {j \in 1..Len(F[b].insts) : F[b].insts[j].id = u}}
           \cup (IF F[b].term.id = u THEN {F[b].term.cond, F[b].term.val} ELSE {}) :
           b \in 1..Len(F)}

OpOfId(u) ==
    UNION {{F[b].insts[k].op : k \in {j \in 1..Len(F[b].insts) : F[b].insts[j].id = u}} :
           b \in 1..Len(F)}

NoAddsLeft == \A b \in 1..Len(F) : \A k \in 1..Len(F[b].insts) : F[b].insts[k].op # "add"

NoErasedReferenced ==
    \A b \in 1..Len(F) : \A o \in OperandsOf(F[b]) : o[1] = "v" => o[2] \in DefinedIds

\* Every surviving former user of a replaced addition uses the replacement,
\* and a user that is gone was itself a replaced addition.
UsesRedirected ==
    \A k \in 1..Len(subs) : \A u \in subs[k].users :
        IF u \in DefinedIds
        THEN subs[k].result \in OperandsOfId(u) /\ V(subs[k].add) \notin OperandsOfId(u)
        ELSE \E j \in 1..Len(subs) : subs[j].add = u

RECURSIVE CountAdds(_, _)
CountAdds(Fn, b) ==
    IF b = 0 THEN 0
    ELSE Len(SelectSeq(Fn[b].insts, LAMBDA x : x.op = "add")) + CountAdds(Fn, b - 1)

\* The additions a run rewrites: those of the function on entry and the one
\* each injection brings.
AddsToRewrite == CountAdds(F0, Len(F0)) + Len(inj)

\* C8 as stated: the replacement of every addition is a subtraction
\* instruction.
C8_ReplacedBySubtraction ==
    (Done /\ cfg.sub) =>
        /\ NoAddsLeft
        /\ \A k \in 1..Len(subs) :
               subs[k].result[1] = "v" /\ OpOfId(subs[k].result[2]) = {"sub"}
        /\ UsesRedirected
        /\ NoErasedReferenced
        /\ SubsDelta = AddsToRewrite

\* C8: after a run with substitution on, no addition is left, every former
\* use of an addition's result refers to its replacement - the subtraction
\* a - (-b), or the constant a + b that the subtraction folds to when both
\* operands are constants - nothing refers to an erased instruction, and
\* instructionSubstitutions has grown by the number of additions rewritten.
C8_AdditionsReplaced ==
    (Done /\ cfg.sub) =>
        /\ NoAddsLeft
        /\ \A k \in 1..Len(subs) :
               IF IsConst(subs[k].a) /\ IsConst(subs[k].b)
               THEN subs[k].result = Const(Add32(ConstVal(subs[k].a), ConstVal(subs[k].b)))
               ELSE subs[k].result[1] = "v" /\ OpOfId(subs[k].result[2]) = {"sub"}
        /\ UsesRedirected
        /\ NoErasedReferenced
        /\ SubsDelta = AddsToRewrite
        /\ Len(subs) = AddsToRewrite

\* A finished run that rewrote additions of the function, of a bogus block
\* and of a fake loop, one of them with two constant operands and one used
\* by a phi.
C8_Witness ==
    /\ Done /\ cfg.sub /\ BogusDelta > 0 /\ LoopsDelta > 0
    /\ \E k \in 1..Len(subs) : IsConst(subs[k].result) /\ subs[k].users # {}
    /\ \E k \in 1..Len(subs) : ~IsConst(subs[k].result) /\ subs[k].users # {}
    /\ Len(subs) > Len(inj)

\* C9: for 32-bit operands a and b, a - (-b) has the bit pattern of a + b.
C9_SubOfNegIsAdd == ar.stage = "done" => ar.res = ar.sum

\* The replacement computed for a = 0, b = INT32_MIN, whose negation wraps
\* to itself.
C9_Witness ==
    /\ ar.stage = "done" /\ ar.a = Zero32 /\ ar.b = IntMin32
    /\ ar.neg = IntMin32 /\ ar.res = IntMin32

\* The function of one block that returns the sum of its two arguments.
RetSum == MkFunction(1, [i \in 1..1 |-> <<"ret", 0, 0>>], TRUE)

ReturnsSum ==
    \A a \in Vals, b \in Vals : Exec(F, <<a, b, Zero32>>, nextId) = <<"ret", Add32(a, b)>>

\* C10 as stated: the full run on RetSum adds 2 bogus blocks.
C10_TwoBogusBlocks ==
    (Done /\ AllOn /\ F0 = RetSum) =>
        /\ BogusDelta = 2 /\ LoopsDelta = 0 /\ SubsDelta = 1
        /\ ReturnsSum

\* C10: the full run on RetSum adds no bogus block (its only block ends in
\* a return) and no fake loop, substitutes once, and the function still
\* returns a + b for all a and b.
C10_RetSumEndToEnd ==
    (Done /\ AllOn /\ F0 = RetSum) =>
        /\ BogusDelta = 0 /\ LoopsDelta = 0 /\ SubsDelta = 1
        /\ Len(F) = 1 /\ NoAddsLeft
        /\ ReturnsSum

C10_Witness == Done /\ AllOn /\ F0 = RetSum /\ SubsDelta = 1 /\ F # F0

\* The counters of stats account for exactly the functions handed to run:
\* the one being entered is counted by the first step of its run.
CountsMatchHistory ==
    IF pc = "start"
    THEN /\ stats.functionsObfuscated = hist.k - 1
         /\ stats.totalBasicBlocks = hist.blocks - Len(F)
         /\ stats.totalInstructions = hist.insts - Cardinality(IdsOf(F))
    ELSE /\ stats.functionsObfuscated = hist.k
         /\ stats.totalBasicBlocks = hist.blocks
         /\ stats.totalInstructions = hist.insts

CountersGrow ==
    /\ stats'.bogusBlocksAdded >= stats.bogusBlocksAdded
    /\ stats'.fakeLoopsAdded >= stats.fakeLoopsAdded
    /\ stats'.instructionSubstitutions >= stats.instructionSubstitutions

\* C11: after runs on F1..Fk, with no reset in between, functionsObfuscated
\* is k, totalBasicBlocks and totalInstructions are the sums of the block and
\* instruction counts the functions had on entry to their runs, and
\* bogusBlocksAdded, fakeLoopsAdded and instructionSubstitutions never
\* decrease.
C11_CumulativeCounters == [](CountsMatchHistory) /\ [][CountersGrow]_vars

\* The second run has finished; both runs injected blocks and substituted,
\* so the function now has more blocks and instructions than were counted.
C11_Witness ==
    /\ Done /\ hist.k = 2
    /\ BogusDelta > 0 /\ stats.bogusBlocksAdded > BogusDelta
    /\ LoopsDelta > 0 /\ stats.fakeLoopsAdded > LoopsDelta
    /\ SubsDelta > 0 /\ stats.instructionSubstitutions > SubsDelta
    /\ Len(F) > Len(F0)
    /\ stats.totalBasicBlocks > Len(F0)

\* C12: for every injection at insertion point B, the continuation - the
\* block the bogus block or loop exit branches to and the guard's false
\* edge targets - is the block after B in the layout the injection found,
\* or the entry block when B was the last block, and is never a block the
\* injection itself created.
C12_NextIsLayoutSuccessor ==
    \A k \in 1..Len(inj) :
        LET e == inj[k]
            last == e.first - 1
            want == IF e.at < last THEN e.at + 1 ELSE 1
        IN  /\ e.cont = want
            /\ e.guard.f = want
            /\ e.cont \notin e.first..(e.first + e.created - 1)

\* Injections of the given kind that found a terminator to replace.
Guarded(kind) == {k \in 1..Len(inj) : inj[k].kind = kind /\ inj[k].orig.op # "none"}

\* C13: when an injector is asked to replace the terminator of a block that
\* has none, the function's processing stops there: the blocks built for
\* that injection are not left in the function, it is counted neither in
\* bogusBlocksAdded nor in fakeLoopsAdded, no later insertion point is
\* processed, and the function is not reported modified on account of it.
C13_NoTerminatorAborts ==
    \A k \in 1..Len(inj) :
        inj[k].orig.op = "none" =>
            /\ k = Len(inj)
            /\ Len(F) = inj[k].first - 1
            /\ BogusDelta = Cardinality(Guarded("bogus"))
            /\ LoopsDelta = Cardinality(Guarded("loop"))
            /\ pc \in {"bogus", "fake"}
            /\ loc.modified => (Guarded("bogus") \cup Guarded("loop") # {} \/ SubsDelta > 0)
====
